---- MODULE Spec2Model ----
(***************************************************************************)
(* Model of RecentlyAddedPlaylistSyncer (recently_added_playlist_syncer.py) *)
(* and of the remote playlist service it talks to, of get_playlist_ids and *)
(* lambda_handler (lambda_function.py) with the parameter / secret that    *)
(* holds the playlist list, and of the two token cache handlers.  Every    *)
(* remote call is one step; the local computations between two remote      *)
(* calls are steps of their own.  Indices are 0-based as in the Python     *)
(* source; sequences are 1-based, so element i of a list s is s[i + 1].    *)
(***************************************************************************)
EXTENDS Integers, Sequences, FiniteSets, TLC

\* ------------------------------------------------------------------ bounds
\* Track ids of the exhaustive initial states are 1..MaxId.
MaxId == 3
\* Longest playlist / library feed of the exhaustive initial states.
MaxPlaylistLen == 3
\* Track ids and lengths of the initial states that an external actor edits.
MaxExtId == 2
MaxExtLen == 2
\* How many edits the external actor makes during one run.
MaxExternalEdits == 1
\* Runs of sync() on the same playlist, one after the other, and the track ids
\* and lengths of their exhaustive initial states.
MaxRuns == 2
MaxRerunId == 2
MaxRerunLen == 3
\* Window fetcher inputs: library lengths 0..MaxFeedLen, segment indices
\* 0..MaxIndex, window sizes 1..MaxWindow (and two larger ones).
MaxFeedLen == 160
MaxIndex == 2
MaxWindow == 60
\* lambda_handler: configured and stored name lists of up to MaxNames names,
\* playlists that hold a track id of 1..MaxHandlerId, and at most MaxFaults
\* failing remote calls over all invocations.
MaxNames == 2
MaxHandlerId == 2
MaxFaults == 1
\* Token cache: stored payloads of up to MaxPayloadLen characters.
MaxPayloadLen == 4

\* ------------------------------------------------------- program constants
GET_LIMIT == 50
DEFAULT_PLAYLIST_LENGTH == 200

\* --------------------------------------------------------- list operations
Min(a, b) == IF a < b THEN a ELSE b

Iota(n) == [k \in 1..n |-> k]

Reverse(s) == [k \in 1..Len(s) |-> s[Len(s) + 1 - k]]

\* `x in s` for a Python list.
Contains(s, x) == \E k \in 1..Len(s) : s[k] = x

Count(s, x) == Cardinality({k \in 1..Len(s) : s[k] = x})

IsDuplicateFree(s) == \A j, k \in 1..Len(s) : s[j] = s[k] => j = k

\* s[lo:hi] of Python, for 0 <= lo.
Slice(s, lo, hi) ==
    IF lo >= Min(hi, Len(s)) THEN << >> ELSE SubSeq(s, lo + 1, Min(hi, Len(s)))

\* list.index(x): the 0-based position of the first occurrence.
Index(s, x) == (CHOOSE k \in 1..Len(s) : s[k] = x /\ \A j \in 1..(k - 1) : s[j] # x) - 1

\* list.pop(i) leaves this list behind.
PopAt(s, i) == Slice(s, 0, i) \o Slice(s, i + 1, Len(s))

\* list.insert(i, x): an index past the end appends.
InsertAt(s, i, x) ==
    LET at == Min(i, Len(s)) IN Slice(s, 0, at) \o <<x>> \o Slice(s, at, Len(s))

\* All sequences over S of length at most n, and the duplicate-free ones.
SeqsUpTo(S, n) == UNION {[1..k -> S] : k \in 0..n}
DuplicateFreeSeqsUpTo(S, n) == {s \in SeqsUpTo(S, n) : IsDuplicateFree(s)}

\* ------------------------------------------------------ the remote service
\* One page of a paginated read: at most `limit` items from `offset` on.
Page(list, limit, offset) == Slice(list, offset, offset + limit)

\* playlist_remove_all_occurrences_of_items: every copy of every id goes.
RemoveAllOccurrences(playlist, items) ==
    SelectSeq(playlist, LAMBDA t : ~Contains(items, t))

\* playlist_add_items(items, position): the items, in order, at `position`.
AddItems(playlist, items, position) ==
    Slice(playlist, 0, position) \o items \o Slice(playlist, position, Len(playlist))

\* playlist_reorder_items(range_start, insert_before), range_length 1: the item
\* at range_start is placed before the item that was at insert_before.
ReorderInRange(playlist, range_start, insert_before) ==
    /\ range_start >= 0 /\ range_start < Len(playlist)
    /\ insert_before >= 0 /\ insert_before <= Len(playlist)
ReorderItems(playlist, range_start, insert_before) ==
    LET item == playlist[range_start + 1]
        rest == PopAt(playlist, range_start)
        at == IF insert_before > range_start THEN insert_before - 1 ELSE insert_before
    IN  InsertAt(rest, at, item)

\* ------------------------------------------------------------------- state
VARIABLES
    feed,                   \* the library's recently-saved feed, newest first
    remote,                 \* the playlist as the remote service holds it
    playlist_index,         \* self.playlist_index
    playlist_length,        \* self.playlist_length
    pc,                     \* where the run stands
    phase,                  \* which part of sync() the current call belongs to
    err,                    \* the exception that ended the run, or "none"
    all_tracks, offset, fetched,        \* locals of the two paginated reads
    recently_added_tracks,  \* the target sequence
    playlist_tracks,        \* the playlist as last fetched; reorder's mirror
    duplicate_tracks, tracks_to_delete, tracks_to_add,
    i,                      \* batch start in delete_tracks / add_tracks
    correct_index,          \* loop position of reorder_playlist
    tracks_reordered,
    trace,                  \* the remote calls this run has issued, in order
    run,                    \* number of the current run
    prev,                   \* how the previous run ended ("none" for run 1)
    ext_edits,              \* edits made by the external actor so far
    playlist_names,         \* lambda_function.playlist_names
    secrets_backend,        \* lambda_function.secrets_backend
    store,                  \* the playlist parameter / secret of the backend
    playlists,              \* get_playlist_ids' list of (name, id) tuples
    hpc,                    \* where lambda_handler stands
    remote_playlists,       \* the service's playlists by id, outside a sync()
    handler_trace,          \* what lambda_handler has called, over all invocations
    token_store,            \* the token parameter / secret of the backend
    cached_token            \* how get_cached_token ended

vars == <<feed, remote, playlist_index, playlist_length, pc, phase, err,
          all_tracks, offset, fetched, recently_added_tracks, playlist_tracks,
          duplicate_tracks, tracks_to_delete, tracks_to_add, i, correct_index,
          tracks_reordered, trace, run, prev, ext_edits,
          playlist_names, secrets_backend, store, playlists, hpc,
          remote_playlists, handler_trace, token_store, cached_token>>

handler == <<playlist_names, secrets_backend, store, playlists, hpc,
             remote_playlists, handler_trace>>
token_cache == <<token_store, cached_token>>
config == <<feed, playlist_index, playlist_length, handler, token_cache>>
fetch_locals == <<all_tracks, offset, fetched>>
diff_locals == <<duplicate_tracks, tracks_to_delete, tracks_to_add>>
reorder_locals == <<correct_index, tracks_reordered>>
runs == <<run, prev, ext_edits>>

\* One remote call, as the trace records it.
Call(op, ids, off, range_start, insert_before) ==
    [op |-> op, ids |-> ids, offset |-> off,
     range_start |-> range_start, insert_before |-> insert_before, result |-> "ok"]
\* A call that returned no result container ("None") or raised (the exception).
FailedCall(op, off, result) == [Call(op, << >>, off, 0, 0) EXCEPT !.result = result]
\* A read is recorded with the page it returned.
SavedTracksCall(off, page) == Call("current_user_saved_tracks", page, off, 0, 0)
PlaylistItemsCall(off, page) == Call("playlist_items", page, off, 0, 0)
RemoveCall(batch) == Call("playlist_remove_all_occurrences_of_items", batch, 0, 0, 0)
AddCall(batch) == Call("playlist_add_items", batch, 0, 0, 0)
ReorderCall(range_start, insert_before) ==
    Call("playlist_reorder_items", << >>, 0, range_start, insert_before)

MutationOps == {"playlist_remove_all_occurrences_of_items",
                "playlist_add_items", "playlist_reorder_items"}
Calls(tr, ops) == SelectSeq(tr, LAMBDA c : c.op \in ops /\ c.result = "ok")
Mutations(tr) == Calls(tr, MutationOps)
Moves(tr) == Calls(tr, {"playlist_reorder_items"})

\* The list a paginated read returned whose pages are reads[k], reads[k+1], ...:
\* the pages up to the first short one.
RECURSIVE Fetched(_, _)
Fetched(reads, k) ==
    IF k > Len(reads) THEN << >>
    ELSE IF Len(reads[k].ids) < GET_LIMIT THEN reads[k].ids
         ELSE reads[k].ids \o Fetched(reads, k + 1)
\* The playlist as the run's first read of it returned it.
FirstFetch(tr) == Fetched(Calls(tr, {"playlist_items"}), 1)

\* ------------------------------------------------- sync()'s local computations
\* Lines 217-223: the scan appends every occurrence of an id that comes after
\* the id's first occurrence (the id is in seen_tracks by then), in list order.
SeenBefore(tracks, k) == {tracks[j] : j \in 1..(k - 1)}
\* A duplicate scan that compares each track with its predecessor only.
DuplicateTracksAdjacent(tracks) ==
    LET later == {k \in 2..Len(tracks) : tracks[k] = tracks[k - 1]}
        nth(n) == CHOOSE k \in later : Cardinality({j \in later : j < k}) = n - 1
    IN  [n \in 1..Cardinality(later) |-> tracks[nth(n)]]

DuplicateTracks(tracks) ==
    LET later == {k \in 1..Len(tracks) : tracks[k] \in SeenBefore(tracks, k)}
        nth(n) == CHOOSE k \in later : Cardinality({j \in later : j < k}) = n - 1
    IN  [n \in 1..Cardinality(later) |-> tracks[nth(n)]]

\* The comprehension with its condition dropped.
TracksWhatever(tracks, others) == tracks

\* The comprehension with its `not` dropped.
TracksIn(tracks, others) == SelectSeq(tracks, LAMBDA t : Contains(others, t))

\* Lines 235-237 and 249-251: [t for t in tracks if t not in others].
TracksNotIn(tracks, others) == SelectSeq(tracks, LAMBDA t : ~Contains(others, t))

\* A batch that runs one track into the next batch.
BatchOverlaps(tracks, start) == Slice(tracks, start, start + GET_LIMIT + 1)

\* A batch that starts one track late.
BatchSkipsFirst(tracks, start) == Slice(tracks, start + 1, start + GET_LIMIT)

\* The batch of delete_tracks / add_tracks that starts at index start.
Batch(tracks, start) == Slice(tracks, start, start + GET_LIMIT)

\* First value of reversed(range(0, n, GET_LIMIT)), for n > 0.
LastBatchStart(n) == ((n - 1) \div GET_LIMIT) * GET_LIMIT

\* A local update that exchanges the two tracks.
MoveTrackSwap(tracks, from, to) ==
    IF to >= Len(tracks) THEN tracks
    ELSE [tracks EXCEPT ![from + 1] = tracks[to + 1], ![to + 1] = tracks[from + 1]]

\* A local update that puts the moved track at the head of the list.
MoveTrackToHead(tracks, from, to) == InsertAt(PopAt(tracks, from), 0, tracks[from + 1])

\* A reorder_playlist that leaves its local list as it was.
MoveTrackNoUpdate(tracks, from, to) == tracks

\* Lines 187-188: pop the track at current_index (from), insert it at
\* correct_index (to).
MoveTrack(tracks, from, to) == InsertAt(PopAt(tracks, from), to, tracks[from + 1])

\* The list delete_tracks was called with.
TracksToRemove == IF phase = "duplicates" THEN duplicate_tracks ELSE tracks_to_delete

\* Where sync() continues after the re-fetch of each phase.
AfterFetch(ph) ==
    CASE ph = "initial" -> "sync_compare"
      [] ph = "duplicates" -> "sync_to_delete"
      [] ph = "to_delete" -> "sync_to_add"
      [] ph = "to_add" -> "sync_reorder"
      [] ph = "reorder" -> "sync_verify"

\* ------------------------------------------------------------ initial states
Ids == 1..MaxId

\* A run whose first read starts at the head of the library whatever its segment.
StartOfRunOffsetZero ==
    /\ pc = "get_recently_added_tracks"
    /\ phase = "initial"
    /\ err = "none"
    /\ all_tracks = << >> /\ offset = 0 /\ fetched = 0
    /\ recently_added_tracks = << >> /\ playlist_tracks = << >>
    /\ duplicate_tracks = << >> /\ tracks_to_delete = << >> /\ tracks_to_add = << >>
    /\ i = 0 /\ correct_index = 0 /\ tracks_reordered = 0
    /\ trace = << >>

\* The locals of a run that has not started, and the run's first position.
StartOfRun ==
    /\ pc = "get_recently_added_tracks"
    /\ phase = "initial"
    /\ err = "none"
    /\ all_tracks = << >> /\ offset = playlist_index * playlist_length /\ fetched = 0
    /\ recently_added_tracks = << >> /\ playlist_tracks = << >>
    /\ duplicate_tracks = << >> /\ tracks_to_delete = << >> /\ tracks_to_add = << >>
    /\ i = 0 /\ correct_index = 0 /\ tracks_reordered = 0
    /\ trace = << >>

\* A JSON array, as it is stored.
JsonArray(items) == [json |-> "array", items |-> items]
\* No playlist parameter / secret.
NoStore == [exists |-> FALSE, value |-> JsonArray(<< >>)]

\* The syncer is used on its own: no lambda_handler, no token cache.
NoHandler ==
    /\ playlist_names = << >>
    /\ secrets_backend = "parameterstore"
    /\ store = NoStore
    /\ playlists = << >>
    /\ hpc = "none"
    /\ remote_playlists = << >>
    /\ handler_trace = << >>
    /\ token_store = [response |-> "not found", value |-> << >>]
    /\ cached_token = [ended |-> "not called", value |-> "none"]

FirstRun == run = 1 /\ prev = "none" /\ ext_edits = 0 /\ NoHandler

\* lambda_handler's segment 0 with the default length: every duplicate-free
\* library feed and every playlist content over the ids.
InitSmall ==
    /\ feed \in DuplicateFreeSeqsUpTo(Ids, MaxPlaylistLen)
    /\ remote \in SeqsUpTo(Ids, MaxPlaylistLen)
    /\ playlist_index = 0
    /\ playlist_length = DEFAULT_PLAYLIST_LENGTH
    /\ FirstRun
    /\ StartOfRun

\* Feeds and playlists longer than one page and one batch.
BigLen == GET_LIMIT + 1
BigCases ==
    { <<Iota(BigLen), << >> >>,
      <<Iota(2 * GET_LIMIT + 1), <<2 * GET_LIMIT + 2, 7>> >>,
      <<Iota(BigLen), Reverse(Iota(BigLen))>>,
      <<Iota(BigLen), Iota(BigLen)>>,
      << <<1>>, Iota(BigLen + 1)>>,
      <<Iota(BigLen), Iota(BigLen) \o Iota(BigLen)>> }

InitBig ==
    /\ \E c \in BigCases : feed = c[1] /\ remote = c[2]
    /\ playlist_index = 0
    /\ playlist_length = DEFAULT_PLAYLIST_LENGTH
    /\ FirstRun
    /\ StartOfRun

Init == InitSmall \/ InitBig

\* As InitSmall, with library feeds that hold an id more than once as well.
InitAnyFeed ==
    /\ feed \in SeqsUpTo(1..MaxRerunId, MaxRerunLen)
    /\ remote \in SeqsUpTo(1..MaxRerunId, MaxRerunLen)
    /\ playlist_index = 0
    /\ playlist_length = DEFAULT_PLAYLIST_LENGTH
    /\ FirstRun
    /\ StartOfRun

InitRerun == InitAnyFeed \/ InitBig

\* ------------------------------------------------------------ paginated reads
\* get_recently_added_tracks, lines 58-87: one pass of the while loop, or its exit.
get_recently_added_tracks ==
    /\ pc = "get_recently_added_tracks"
    /\ IF fetched < playlist_length
       THEN LET tracks == Page(feed, GET_LIMIT, offset) IN
            /\ trace' = Append(trace, SavedTracksCall(offset, tracks))
            /\ IF Len(tracks) < GET_LIMIT
               THEN /\ recently_added_tracks' = all_tracks \o tracks
                    /\ pc' = "get_playlist_tracks"
                    /\ all_tracks' = << >> /\ offset' = 0
                    /\ UNCHANGED fetched
               ELSE /\ all_tracks' = all_tracks \o tracks
                    /\ offset' = offset + GET_LIMIT
                    /\ fetched' = fetched + Len(tracks)
                    /\ UNCHANGED <<recently_added_tracks, pc>>
       ELSE /\ recently_added_tracks' = all_tracks
            /\ pc' = "get_playlist_tracks"
            /\ all_tracks' = << >> /\ offset' = 0
            /\ UNCHANGED <<fetched, trace>>
    /\ UNCHANGED <<config, remote, phase, err, playlist_tracks, diff_locals, i,
                   reorder_locals, runs>>

\* get_playlist_tracks, lines 97-128: one page; the short page returns to sync().
get_playlist_tracks ==
    /\ pc = "get_playlist_tracks"
    /\ LET tracks == Page(remote, GET_LIMIT, offset) IN
       /\ trace' = Append(trace, PlaylistItemsCall(offset, tracks))
       /\ all_tracks' = all_tracks \o tracks
       /\ IF Len(tracks) < GET_LIMIT
          THEN /\ playlist_tracks' = all_tracks \o tracks
               /\ pc' = AfterFetch(phase)
               /\ UNCHANGED offset
          ELSE /\ offset' = offset + GET_LIMIT
               /\ UNCHANGED <<playlist_tracks, pc>>
    /\ UNCHANGED <<config, remote, phase, err, fetched, recently_added_tracks,
                   diff_locals, i, reorder_locals, runs>>

\* A sync() without the early return of lines 212-214.
sync_compare_never ==
    /\ pc = "sync_compare"
    /\ pc' = "sync_duplicates"
    /\ UNCHANGED <<config, remote, phase, err, fetch_locals, recently_added_tracks,
                   playlist_tracks, diff_locals, i, reorder_locals, trace, runs>>

\* A sync() whose early return tests != instead of ==.
sync_compare_inverted ==
    /\ pc = "sync_compare"
    /\ pc' = IF recently_added_tracks # playlist_tracks THEN "done" ELSE "sync_duplicates"
    /\ UNCHANGED <<config, remote, phase, err, fetch_locals, recently_added_tracks,
                   playlist_tracks, diff_locals, i, reorder_locals, trace, runs>>

\* ------------------------------------------------------------------- sync()
\* Lines 211-214: the playlist is already up to date.
sync_compare ==
    /\ pc = "sync_compare"
    /\ pc' = IF recently_added_tracks = playlist_tracks THEN "done" ELSE "sync_duplicates"
    /\ UNCHANGED <<config, remote, phase, err, fetch_locals, recently_added_tracks,
                   playlist_tracks, diff_locals, i, reorder_locals, trace, runs>>

\* Lines 216-227: find the duplicates and, if there are any, call delete_tracks.
sync_duplicates ==
    /\ pc = "sync_duplicates"
    /\ duplicate_tracks' = DuplicateTracks(playlist_tracks)
    /\ IF duplicate_tracks' # << >>
       THEN pc' = "delete_tracks" /\ phase' = "duplicates" /\ i' = 0
       ELSE pc' = "sync_to_delete" /\ UNCHANGED <<phase, i>>
    /\ UNCHANGED <<config, remote, err, fetch_locals, recently_added_tracks,
                   playlist_tracks, tracks_to_delete, tracks_to_add,
                   reorder_locals, trace, runs>>

\* Lines 234-241: the tracks the target does not hold.
sync_to_delete ==
    /\ pc = "sync_to_delete"
    /\ tracks_to_delete' = TracksNotIn(playlist_tracks, recently_added_tracks)
    /\ IF tracks_to_delete' # << >>
       THEN pc' = "delete_tracks" /\ phase' = "to_delete" /\ i' = 0
       ELSE pc' = "sync_to_add" /\ UNCHANGED <<phase, i>>
    /\ UNCHANGED <<config, remote, err, fetch_locals, recently_added_tracks,
                   playlist_tracks, duplicate_tracks, tracks_to_add,
                   reorder_locals, trace, runs>>

\* A delete_tracks after which sync() works out the playlist itself from the
\* list it had and the ids it removed, and goes on without reading it again.
delete_tracks_infers ==
    /\ pc = "delete_tracks"
    /\ LET batch == Batch(TracksToRemove, i) IN
       /\ remote' = RemoveAllOccurrences(remote, batch)
       /\ trace' = Append(trace, RemoveCall(batch))
    /\ i' = i + GET_LIMIT
    /\ IF i' < Len(TracksToRemove)
       THEN UNCHANGED <<pc, playlist_tracks>>
       ELSE /\ pc' = AfterFetch(phase)
            /\ playlist_tracks' = RemoveAllOccurrences(playlist_tracks, TracksToRemove)
    /\ UNCHANGED <<config, phase, err, fetch_locals, recently_added_tracks,
                   diff_locals, reorder_locals, runs>>

\* delete_tracks, lines 134-140: one batch; after the last one sync() re-fetches.
delete_tracks ==
    /\ pc = "delete_tracks"
    /\ LET batch == Batch(TracksToRemove, i) IN
       /\ remote' = RemoveAllOccurrences(remote, batch)
       /\ trace' = Append(trace, RemoveCall(batch))
    /\ i' = i + GET_LIMIT
    /\ IF i' < Len(TracksToRemove)
       THEN UNCHANGED <<pc, all_tracks, offset>>
       ELSE pc' = "get_playlist_tracks" /\ all_tracks' = << >> /\ offset' = 0
    /\ UNCHANGED <<config, phase, err, fetched, recently_added_tracks,
                   playlist_tracks, diff_locals, reorder_locals, runs>>

\* Lines 248-255: the target's tracks the playlist does not hold.
sync_to_add ==
    /\ pc = "sync_to_add"
    /\ tracks_to_add' = TracksNotIn(recently_added_tracks, playlist_tracks)
    /\ IF tracks_to_add' # << >>
       THEN /\ pc' = "add_tracks" /\ phase' = "to_add"
            /\ i' = LastBatchStart(Len(tracks_to_add'))
       ELSE pc' = "sync_reorder" /\ UNCHANGED <<phase, i>>
    /\ UNCHANGED <<config, remote, err, fetch_locals, recently_added_tracks,
                   playlist_tracks, duplicate_tracks, tracks_to_delete,
                   reorder_locals, trace, runs>>

\* An add_tracks that walks the batches from the first to the last.
add_tracks_forward ==
    /\ pc = "add_tracks"
    /\ LET batch == Batch(tracks_to_add, LastBatchStart(Len(tracks_to_add)) - i) IN
       /\ remote' = AddItems(remote, batch, 0)
       /\ trace' = Append(trace, AddCall(batch))
    /\ IF i > 0
       THEN i' = i - GET_LIMIT /\ UNCHANGED <<pc, all_tracks, offset>>
       ELSE pc' = "get_playlist_tracks" /\ all_tracks' = << >> /\ offset' = 0
                /\ UNCHANGED i
    /\ UNCHANGED <<config, phase, err, fetched, recently_added_tracks,
                   playlist_tracks, diff_locals, reorder_locals, runs>>

\* add_tracks, lines 149-155: one batch at position 0, last batch first.
add_tracks ==
    /\ pc = "add_tracks"
    /\ LET batch == Batch(tracks_to_add, i) IN
       /\ remote' = AddItems(remote, batch, 0)
       /\ trace' = Append(trace, AddCall(batch))
    /\ IF i > 0
       THEN i' = i - GET_LIMIT /\ UNCHANGED <<pc, all_tracks, offset>>
       ELSE pc' = "get_playlist_tracks" /\ all_tracks' = << >> /\ offset' = 0
                /\ UNCHANGED i
    /\ UNCHANGED <<config, phase, err, fetched, recently_added_tracks,
                   playlist_tracks, diff_locals, reorder_locals, runs>>

\* Lines 261-264: reorder only if the playlist does not match.
sync_reorder ==
    /\ pc = "sync_reorder"
    /\ IF recently_added_tracks # playlist_tracks
       THEN /\ pc' = "reorder_playlist" /\ phase' = "reorder"
            /\ correct_index' = 0 /\ tracks_reordered' = 0
       ELSE pc' = "sync_verify" /\ UNCHANGED <<phase, reorder_locals>>
    /\ UNCHANGED <<config, remote, err, fetch_locals, recently_added_tracks,
                   playlist_tracks, diff_locals, i, trace, runs>>

\* A sync() that takes reorder_playlist's local list for the playlist and does
\* not read the playlist again before the final comparison.
reorder_playlist_trusts_mirror ==
    /\ pc = "reorder_playlist"
    /\ IF correct_index >= Len(recently_added_tracks)
       THEN /\ pc' = "sync_verify"
            /\ UNCHANGED <<remote, err, all_tracks, offset, playlist_tracks,
                           reorder_locals, trace>>
       ELSE LET track == recently_added_tracks[correct_index + 1] IN
            IF ~Contains(playlist_tracks, track)
            THEN /\ pc' = "error" /\ err' = "ValueError"
                 /\ UNCHANGED <<remote, all_tracks, offset, playlist_tracks,
                                reorder_locals, trace>>
            ELSE LET current_index == Index(playlist_tracks, track) IN
                 IF correct_index # current_index
                 THEN /\ trace' = Append(trace, ReorderCall(current_index, correct_index))
                      /\ \/ /\ ReorderInRange(remote, current_index, correct_index)
                            /\ remote' = ReorderItems(remote, current_index, correct_index)
                            /\ playlist_tracks' =
                                   MoveTrack(playlist_tracks, current_index, correct_index)
                            /\ correct_index' = correct_index + 1
                            /\ tracks_reordered' = tracks_reordered + 1
                            /\ UNCHANGED <<pc, err>>
                         \/ /\ ~ReorderInRange(remote, current_index, correct_index)
                            /\ playlist_tracks' =
                                   MoveTrack(playlist_tracks, current_index, correct_index)
                            /\ correct_index' = correct_index + 1
                            /\ tracks_reordered' = tracks_reordered + 1
                            /\ UNCHANGED <<remote, pc, err>>
                         \/ /\ ~ReorderInRange(remote, current_index, correct_index)
                            /\ pc' = "error" /\ err' = "SpotifyException"
                            /\ UNCHANGED <<remote, playlist_tracks, reorder_locals>>
                      /\ UNCHANGED <<all_tracks, offset>>
                 ELSE /\ correct_index' = correct_index + 1
                      /\ UNCHANGED <<remote, pc, err, all_tracks, offset,
                                     playlist_tracks, tracks_reordered, trace>>
    /\ UNCHANGED <<config, phase, fetched, recently_added_tracks, diff_locals, i, runs>>

\* A reorder_playlist that carries a track to its place one position at a time.
reorder_playlist_stepwise ==
    /\ pc = "reorder_playlist"
    /\ IF correct_index >= Len(recently_added_tracks)
       THEN /\ pc' = "get_playlist_tracks" /\ all_tracks' = << >> /\ offset' = 0
            /\ UNCHANGED <<remote, err, playlist_tracks, reorder_locals, trace>>
       ELSE LET track == recently_added_tracks[correct_index + 1] IN
            IF ~Contains(playlist_tracks, track)
            THEN /\ pc' = "error" /\ err' = "ValueError"
                 /\ UNCHANGED <<remote, all_tracks, offset, playlist_tracks,
                                reorder_locals, trace>>
            ELSE LET current_index == Index(playlist_tracks, track) IN
                 IF correct_index < current_index
                 THEN /\ trace' = Append(trace, ReorderCall(current_index, current_index - 1))
                      /\ remote' = ReorderItems(remote, current_index, current_index - 1)
                      /\ playlist_tracks' =
                             MoveTrack(playlist_tracks, current_index, current_index - 1)
                      /\ tracks_reordered' = tracks_reordered + 1
                      /\ UNCHANGED <<pc, err, all_tracks, offset, correct_index>>
                 ELSE /\ correct_index' = correct_index + 1
                      /\ UNCHANGED <<remote, pc, err, all_tracks, offset,
                                     playlist_tracks, tracks_reordered, trace>>
    /\ UNCHANGED <<config, phase, fetched, recently_added_tracks, diff_locals, i, runs>>

\* reorder_playlist, lines 171-191: one pass of the for loop, or its end (the
\* re-fetch of line 265).  list.index raises ValueError for a missing track.  A
\* move the remote playlist has no such position for is refused by the service
\* or changes nothing.
reorder_playlist ==
    /\ pc = "reorder_playlist"
    /\ IF correct_index >= Len(recently_added_tracks)
       THEN /\ pc' = "get_playlist_tracks" /\ all_tracks' = << >> /\ offset' = 0
            /\ UNCHANGED <<remote, err, playlist_tracks, reorder_locals, trace>>
       ELSE LET track == recently_added_tracks[correct_index + 1] IN
            IF ~Contains(playlist_tracks, track)
            THEN /\ pc' = "error" /\ err' = "ValueError"
                 /\ UNCHANGED <<remote, all_tracks, offset, playlist_tracks,
                                reorder_locals, trace>>
            ELSE LET current_index == Index(playlist_tracks, track) IN
                 IF correct_index # current_index
                 THEN /\ trace' = Append(trace, ReorderCall(current_index, correct_index))
                      /\ \/ /\ ReorderInRange(remote, current_index, correct_index)
                            /\ remote' = ReorderItems(remote, current_index, correct_index)
                            /\ playlist_tracks' =
                                   MoveTrack(playlist_tracks, current_index, correct_index)
                            /\ correct_index' = correct_index + 1
                            /\ tracks_reordered' = tracks_reordered + 1
                            /\ UNCHANGED <<pc, err>>
                         \/ /\ ~ReorderInRange(remote, current_index, correct_index)
                            /\ playlist_tracks' =
                                   MoveTrack(playlist_tracks, current_index, correct_index)
                            /\ correct_index' = correct_index + 1
                            /\ tracks_reordered' = tracks_reordered + 1
                            /\ UNCHANGED <<remote, pc, err>>
                         \/ /\ ~ReorderInRange(remote, current_index, correct_index)
                            /\ pc' = "error" /\ err' = "SpotifyException"
                            /\ UNCHANGED <<remote, playlist_tracks, reorder_locals>>
                      /\ UNCHANGED <<all_tracks, offset>>
                 ELSE /\ correct_index' = correct_index + 1
                      /\ UNCHANGED <<remote, pc, err, all_tracks, offset,
                                     playlist_tracks, tracks_reordered, trace>>
    /\ UNCHANGED <<config, phase, fetched, recently_added_tracks, diff_locals, i, runs>>

\* A final comparison of which ids are there, not of the order and the counts.
sync_verify_sets ==
    /\ pc = "sync_verify"
    /\ IF {recently_added_tracks[k] : k \in 1..Len(recently_added_tracks)}
              # {playlist_tracks[k] : k \in 1..Len(playlist_tracks)}
       THEN pc' = "error" /\ err' = "PlaylistSyncError"
       ELSE pc' = "done" /\ UNCHANGED err
    /\ UNCHANGED <<config, remote, phase, fetch_locals, recently_added_tracks,
                   playlist_tracks, diff_locals, i, reorder_locals, trace, runs>>

\* Lines 267-274: the final comparison.
sync_verify ==
    /\ pc = "sync_verify"
    /\ IF recently_added_tracks # playlist_tracks
       THEN pc' = "error" /\ err' = "PlaylistSyncError"
       ELSE pc' = "done" /\ UNCHANGED err
    /\ UNCHANGED <<config, remote, phase, fetch_locals, recently_added_tracks,
                   playlist_tracks, diff_locals, i, reorder_locals, trace, runs>>

\* One run of sync() against a service nobody else writes to.
Next ==
    \/ get_recently_added_tracks
    \/ get_playlist_tracks
    \/ sync_compare
    \/ sync_duplicates
    \/ sync_to_delete
    \/ delete_tracks
    \/ sync_to_add
    \/ add_tracks
    \/ sync_reorder
    \/ reorder_playlist
    \/ sync_verify

Spec == Init /\ [][Next]_vars

\* --------------------------------------------------------- the external actor
\* Another client of the remote service edits the playlist while sync() runs.
\* The run can tell edits apart only through its remote calls, so the actor
\* moves while the run is about to issue one.
RemoteCallPcs == {"get_recently_added_tracks", "get_playlist_tracks",
                  "delete_tracks", "add_tracks", "reorder_playlist"}
ExtIds == 1..MaxExtId

ExternalEdit(edited) ==
    /\ pc \in RemoteCallPcs
    /\ ext_edits < MaxExternalEdits
    /\ remote' = edited
    /\ ext_edits' = ext_edits + 1
    /\ UNCHANGED <<config, pc, phase, err, fetch_locals, recently_added_tracks,
                   playlist_tracks, diff_locals, i, reorder_locals, trace, run, prev>>

ExternalAdd ==
    /\ Len(remote) <= MaxExtLen
    /\ \E t \in ExtIds, at \in 0..Len(remote) : ExternalEdit(InsertAt(remote, at, t))

ExternalRemove ==
    \E at \in 0..(Len(remote) - 1) : ExternalEdit(PopAt(remote, at))

ExternalMove ==
    \E from \in 0..(Len(remote) - 1), to \in 0..(Len(remote) - 1) :
        /\ from # to
        /\ ExternalEdit(InsertAt(PopAt(remote, from), to, remote[from + 1]))

InitExt ==
    /\ feed \in DuplicateFreeSeqsUpTo(ExtIds, MaxExtLen)
    /\ remote \in SeqsUpTo(ExtIds, MaxExtLen)
    /\ playlist_index = 0
    /\ playlist_length = DEFAULT_PLAYLIST_LENGTH
    /\ FirstRun
    /\ StartOfRun

NextExt == Next \/ ExternalAdd \/ ExternalRemove \/ ExternalMove

SpecExt == InitExt /\ [][NextExt]_vars

\* ------------------------------------------------------------- several runs
\* The host ends a run between two of its steps (timeout, crash).
Abort ==
    /\ run < MaxRuns
    /\ pc \notin {"done", "error", "aborted"}
    /\ pc' = "aborted"
    /\ UNCHANGED <<config, remote, phase, err, fetch_locals, recently_added_tracks,
                   playlist_tracks, diff_locals, i, reorder_locals, trace, runs>>

\* The next invocation: lambda_handler builds a new syncer and calls sync(),
\* whose locals all start afresh.
Rerun ==
    /\ pc \in {"done", "aborted"}
    /\ run < MaxRuns
    /\ run' = run + 1
    /\ prev' = pc
    /\ pc' = "get_recently_added_tracks"
    /\ phase' = "initial"
    /\ err' = "none"
    /\ all_tracks' = << >> /\ offset' = playlist_index * playlist_length /\ fetched' = 0
    /\ recently_added_tracks' = << >> /\ playlist_tracks' = << >>
    /\ duplicate_tracks' = << >> /\ tracks_to_delete' = << >> /\ tracks_to_add' = << >>
    /\ i' = 0 /\ correct_index' = 0 /\ tracks_reordered' = 0
    /\ trace' = << >>
    /\ UNCHANGED <<config, remote, ext_edits>>

NextRerun == Next \/ Abort \/ Rerun

\* A run that is not aborted goes on to its end (every remote call returns or
\* raises), and the host's schedule invokes the function again.
SpecRerun == InitRerun /\ [][NextRerun]_vars /\ WF_vars(Next) /\ WF_vars(Rerun)

\* One run that goes on to its end.
LiveSpec == Spec /\ WF_vars(Next)

\* ------------------------------------------------------- failing remote calls
\* The remote call the run is about to issue, or "none" when its next step is
\* a local one.
PendingCall ==
    CASE pc = "get_recently_added_tracks" /\ fetched < playlist_length
             -> "current_user_saved_tracks"
      [] pc = "get_playlist_tracks" -> "playlist_items"
      [] pc = "delete_tracks" -> "playlist_remove_all_occurrences_of_items"
      [] pc = "add_tracks" -> "playlist_add_items"
      [] /\ pc = "reorder_playlist"
         /\ correct_index < Len(recently_added_tracks)
         /\ Contains(playlist_tracks, recently_added_tracks[correct_index + 1])
         /\ Index(playlist_tracks, recently_added_tracks[correct_index + 1])
                # correct_index
             -> "playlist_reorder_items"
      [] OTHER -> "none"

\* The calls of lambda_handler and the runs of sync() that failed so far.
NotFoundCodes == {"ParameterNotFound", "ResourceNotFoundException"}
Failures(tr) == {k \in 1..Len(tr) : tr[k].result \notin ({"ok"} \cup NotFoundCodes)}
FaultsLeft == Cardinality(Failures(handler_trace)) < MaxFaults

\* A paginated read whose missing result is taken for a failed attempt: the
\* same page is asked for again.
read_returns_none_retried ==
    /\ PendingCall \in {"current_user_saved_tracks", "playlist_items"}
    /\ FaultsLeft
    /\ trace' = Append(trace, FailedCall(PendingCall, offset, "None"))
    /\ UNCHANGED <<config, remote, pc, err, phase, fetch_locals, recently_added_tracks,
                   playlist_tracks, diff_locals, i, reorder_locals, runs>>

\* Lines 63-65 and 104-108: the page read returns None.
read_returns_none ==
    /\ PendingCall \in {"current_user_saved_tracks", "playlist_items"}
    /\ FaultsLeft
    /\ trace' = Append(trace, FailedCall(PendingCall, offset, "None"))
    /\ pc' = "error" /\ err' = "TrackFetchError"
    /\ UNCHANGED <<config, remote, phase, fetch_locals, recently_added_tracks,
                   playlist_tracks, diff_locals, i, reorder_locals, runs>>

\* Any remote call of the syncer raises: no line of the syncer catches it.
call_raises ==
    /\ PendingCall # "none"
    /\ FaultsLeft
    /\ trace' = Append(trace, FailedCall(PendingCall, offset, "SpotifyException"))
    /\ pc' = "error" /\ err' = "SpotifyException"
    /\ UNCHANGED <<config, remote, phase, fetch_locals, recently_added_tracks,
                   playlist_tracks, diff_locals, i, reorder_locals, runs>>

NextFaulty == Next \/ read_returns_none \/ call_raises

SpecFaulty == Init /\ [][NextFaulty]_vars

\* ----------------------------------------------------------- lambda_handler
\* lambda_function.py.  Playlist names are the first two default names; a
\* playlist's id is its position in remote_playlists.
Names == {"Recently Added", "Older Recently Added"}
Backends == {"parameterstore", "secretsmanager"}

ReadOp == IF secrets_backend = "parameterstore" THEN "get_parameter" ELSE "get_secret_value"
WriteOp == IF secrets_backend = "parameterstore" THEN "put_parameter" ELSE "create_secret"
\* The error code with which the backend answers a read of what is not there.
NotFoundCode ==
    IF secrets_backend = "parameterstore" THEN "ParameterNotFound"
    ELSE "ResourceNotFoundException"

\* One entry of handler_trace: a call of lambda_handler and how it ended.
Event(op, arg, result) == [run |-> run, op |-> op, arg |-> arg, result |-> result]

\* json.dumps(playlists): a list of tuples becomes an array of arrays.
Dumps(list) == JsonArray([k \in 1..Len(list) |-> JsonArray(list[k])])
\* Line 130: [(p[0], p[1]) for p in json.loads(raw)].
ParsePlaylists(raw) ==
    [k \in 1..Len(raw.items) |-> <<raw.items[k].items[1], raw.items[k].items[2]>>]
\* Line 178: [p[0] for p in playlists].
NamesOf(list) == [k \in 1..Len(list) |-> list[k][1]]

sync_state == <<remote, pc, phase, fetch_locals, recently_added_tracks,
                playlist_tracks, diff_locals, i, reorder_locals, trace>>
environment == <<feed, playlist_length, playlist_names, secrets_backend,
                 token_cache, ext_edits>>

\* The exception leaves lambda_handler.
Raise(e) == hpc' = "raised" /\ err' = e

\* How a call can end: as the service answers it, or in one of the failures.
Outcomes(answer, failures) == {answer} \cup (IF FaultsLeft THEN failures ELSE {})

\* Lines 117-137: the read of the stored list.  The except clause handles the
\* two not-found codes and has no branch for any other code.
get_playlist_ids ==
    /\ hpc = "get_playlist_ids"
    /\ \E outcome \in Outcomes(IF store.exists THEN "ok" ELSE NotFoundCode,
                                {"AccessDeniedException"}) :
           /\ handler_trace' = Append(handler_trace, Event(ReadOp, << >>, outcome))
           /\ IF outcome = "ok"
              THEN playlists' = ParsePlaylists(store.value) /\ hpc' = "check_playlists"
              ELSE IF outcome \in NotFoundCodes
                   THEN hpc' = "current_user" /\ UNCHANGED playlists
                   ELSE hpc' = "check_playlists" /\ UNCHANGED playlists
    /\ UNCHANGED <<err, store, remote_playlists, run, prev, playlist_index,
                   environment, sync_state>>

\* Lines 139-144.
current_user ==
    /\ hpc = "current_user"
    /\ \E outcome \in Outcomes("ok", {"None", "SpotifyException"}) :
           /\ handler_trace' = Append(handler_trace, Event("current_user", << >>, outcome))
           /\ CASE outcome = "ok" ->
                      /\ hpc' = IF playlist_names = << >> THEN "save_playlists"
                                ELSE "user_playlist_create"
                      /\ UNCHANGED err
                [] outcome = "None" ->
                      Raise("PlaylistsDataError: Failed to fetch current user")
                [] OTHER -> Raise(outcome)
    /\ UNCHANGED <<store, playlists, remote_playlists, run, prev, playlist_index,
                   environment, sync_state>>

\* Lines 147-162: one pass of the loop over playlist_names.
user_playlist_create ==
    /\ hpc = "user_playlist_create"
    /\ LET playlist_name == playlist_names[Len(playlists) + 1]
           created == <<playlist_name, Len(remote_playlists) + 1>>
       IN
       \E outcome \in Outcomes("ok", {"None", "SpotifyException"}) :
           /\ handler_trace' = Append(handler_trace,
                  Event("user_playlist_create",
                        IF outcome = "ok" THEN created ELSE <<playlist_name>>, outcome))
           /\ CASE outcome = "ok" ->
                      /\ remote_playlists' = Append(remote_playlists, << >>)
                      /\ playlists' = Append(playlists, created)
                      /\ hpc' = IF Len(playlists') = Len(playlist_names)
                                THEN "save_playlists" ELSE "user_playlist_create"
                      /\ UNCHANGED err
                [] outcome = "None" ->
                      /\ Raise("Exception: Failed to create playlist")
                      /\ UNCHANGED <<remote_playlists, playlists>>
                [] OTHER ->
                      /\ Raise(outcome)
                      /\ UNCHANGED <<remote_playlists, playlists>>
    /\ UNCHANGED <<store, run, prev, playlist_index, environment, sync_state>>

\* A get_playlist_ids that returns the list it built without storing it.
save_playlists_forgotten ==
    /\ hpc = "save_playlists"
    /\ hpc' = "check_playlists"
    /\ UNCHANGED <<err, store, handler_trace, playlists, remote_playlists, run, prev,
                   playlist_index, environment, sync_state>>

\* Lines 164-172: the list is stored.
save_playlists ==
    /\ hpc = "save_playlists"
    /\ \E outcome \in Outcomes("ok", {"AccessDeniedException"}) :
           /\ handler_trace' = Append(handler_trace,
                  Event(WriteOp, Dumps(playlists), outcome))
           /\ IF outcome = "ok"
              THEN /\ store' = [exists |-> TRUE, value |-> Dumps(playlists)]
                   /\ hpc' = "check_playlists"
                   /\ UNCHANGED err
              ELSE Raise(outcome) /\ UNCHANGED store
    /\ UNCHANGED <<playlists, remote_playlists, run, prev, playlist_index,
                   environment, sync_state>>

\* A check that takes the stored list if it holds the configured names in any
\* order.
check_playlists_any_order ==
    /\ hpc = "check_playlists"
    /\ IF playlists = << >>
       THEN /\ Raise("PlaylistsDataError: Playlist data retrieval error")
            /\ UNCHANGED handler_trace
       ELSE IF {playlist_names[k] : k \in 1..Len(playlist_names)}
                   # {playlists[k][1] : k \in 1..Len(playlists)}
            THEN /\ Raise("Exception: Playlist data does not match expected")
                 /\ UNCHANGED handler_trace
            ELSE /\ hpc' = "for"
                 /\ handler_trace' = Append(handler_trace,
                        Event("get_playlist_ids", playlists, "ok"))
                 /\ UNCHANGED err
    /\ UNCHANGED <<store, playlists, remote_playlists, run, prev, playlist_index,
                   environment, sync_state>>

\* Lines 174-185: the two checks of the list, and the return.
check_playlists ==
    /\ hpc = "check_playlists"
    /\ IF playlists = << >>
       THEN /\ Raise("PlaylistsDataError: Playlist data retrieval error")
            /\ UNCHANGED handler_trace
       ELSE IF playlist_names # NamesOf(playlists)
            THEN /\ Raise("Exception: Playlist data does not match expected")
                 /\ UNCHANGED handler_trace
            ELSE /\ hpc' = "for"
                 /\ handler_trace' = Append(handler_trace,
                        Event("get_playlist_ids", playlists, "ok"))
                 /\ UNCHANGED err
    /\ UNCHANGED <<store, playlists, remote_playlists, run, prev, playlist_index,
                   environment, sync_state>>

\* __init__, lines 26-47, and the first lines of sync(): the locals of a new
\* syncer for the segment, with the default playlist_length.
NewSyncer(start, index) ==
    /\ pc' = start
    /\ phase' = "initial"
    /\ all_tracks' = << >> /\ offset' = index * playlist_length /\ fetched' = 0
    /\ recently_added_tracks' = << >> /\ playlist_tracks' = << >>
    /\ duplicate_tracks' = << >> /\ tracks_to_delete' = << >> /\ tracks_to_add' = << >>
    /\ i' = 0 /\ correct_index' = 0 /\ tracks_reordered' = 0
    /\ trace' = << >>

\* Lines 211-230: the head of the for loop (the next segment's sync() is
\* called with the loop index), or the return after the last segment.
lambda_handler_for ==
    /\ hpc = "for"
    /\ IF playlist_index < Len(playlists)
       THEN LET playlist_name == playlists[playlist_index + 1][1]
                playlist_id == playlists[playlist_index + 1][2]
            IN  /\ handler_trace' = Append(handler_trace,
                       Event("sync", <<playlist_index, playlist_name, playlist_id>>, "ok"))
                /\ remote' = remote_playlists[playlist_id]
                /\ NewSyncer("get_recently_added_tracks", playlist_index)
                /\ hpc' = "sync"
       ELSE /\ handler_trace' = Append(handler_trace, Event("lambda_handler", << >>, "ok"))
            /\ hpc' = "returned"
            /\ UNCHANGED sync_state
    /\ UNCHANGED <<err, store, playlists, remote_playlists, run, prev, playlist_index,
                   environment>>

\* Line 219 returns: the loop goes on with the next index.
lambda_handler_sync_returned ==
    /\ hpc = "sync" /\ pc = "done"
    /\ remote_playlists' =
           [remote_playlists EXCEPT ![playlists[playlist_index + 1][2]] = remote]
    /\ handler_trace' = Append(handler_trace, Event("sync returned", <<playlist_index>>, "ok"))
    /\ playlist_index' = playlist_index + 1
    /\ hpc' = "for"
    /\ pc' = "idle"
    /\ UNCHANGED <<err, store, playlists, run, prev, environment, remote, phase,
                   fetch_locals, recently_added_tracks, playlist_tracks, diff_locals,
                   i, reorder_locals, trace>>

\* A lambda_handler that notes a failed sync() and goes on with the next segment.
lambda_handler_sync_raised_caught ==
    /\ hpc = "sync" /\ pc = "error"
    /\ remote_playlists' =
           [remote_playlists EXCEPT ![playlists[playlist_index + 1][2]] = remote]
    /\ handler_trace' = Append(handler_trace, Event("sync raised", <<playlist_index>>, err))
    /\ playlist_index' = playlist_index + 1
    /\ hpc' = "for"
    /\ pc' = "idle"
    /\ UNCHANGED <<err, store, playlists, run, prev, environment, remote, phase,
                   fetch_locals, recently_added_tracks, playlist_tracks, diff_locals,
                   i, reorder_locals, trace>>

\* Line 219 raises: nothing in lambda_handler catches it.
lambda_handler_sync_raised ==
    /\ hpc = "sync" /\ pc = "error"
    /\ remote_playlists' =
           [remote_playlists EXCEPT ![playlists[playlist_index + 1][2]] = remote]
    /\ handler_trace' = Append(handler_trace, Event("sync raised", <<playlist_index>>, err))
    /\ hpc' = "raised"
    /\ UNCHANGED <<err, store, playlists, run, prev, playlist_index, environment,
                   sync_state>>

\* The host invokes lambda_handler again.
lambda_handler_invoked ==
    /\ hpc \in {"returned", "raised"}
    /\ run < MaxRuns
    /\ run' = run + 1
    /\ prev' = hpc
    /\ hpc' = "get_playlist_ids"
    /\ playlists' = << >>
    /\ playlist_index' = 0
    /\ err' = "none"
    /\ remote' = << >>
    /\ NewSyncer("idle", 0)
    /\ UNCHANGED <<store, remote_playlists, handler_trace, environment>>

\* The stored list that gives the k-th name the playlist with id k.
StoredList(names) == [k \in 1..Len(names) |-> <<names[k], k>>]
HandlerIds == 1..MaxHandlerId

\* lambda_handler is invoked for the first time: any configured name list, no
\* stored list or any stored list whose playlists exist, all with the same
\* content.
InitHandlerSmall ==
    /\ feed \in DuplicateFreeSeqsUpTo(1..2, 2)
    /\ playlist_names \in SeqsUpTo(Names, MaxNames)
    /\ secrets_backend \in Backends
    /\ \/ store = NoStore /\ remote_playlists = << >>
       \/ \E names \in SeqsUpTo(Names, MaxNames), content \in SeqsUpTo(HandlerIds, 1) :
              /\ store = [exists |-> TRUE, value |-> Dumps(StoredList(names))]
              /\ remote_playlists = [k \in 1..Len(names) |-> content]

\* A library of one track more than the first segment holds.
InitHandlerBig ==
    /\ feed = Iota(DEFAULT_PLAYLIST_LENGTH + 1)
    /\ playlist_names = <<"Recently Added", "Older Recently Added">>
    /\ secrets_backend = "parameterstore"
    /\ store = NoStore /\ remote_playlists = << >>

InitHandler ==
    /\ InitHandlerSmall \/ InitHandlerBig
    /\ playlist_length = DEFAULT_PLAYLIST_LENGTH
    /\ playlist_index = 0
    /\ playlists = << >>
    /\ hpc = "get_playlist_ids"
    /\ handler_trace = << >>
    /\ token_store = [response |-> "not found", value |-> << >>]
    /\ cached_token = [ended |-> "not called", value |-> "none"]
    /\ run = 1 /\ prev = "none" /\ ext_edits = 0
    /\ remote = << >>
    /\ pc = "idle"
    /\ phase = "initial"
    /\ err = "none"
    /\ all_tracks = << >> /\ offset = 0 /\ fetched = 0
    /\ recently_added_tracks = << >> /\ playlist_tracks = << >>
    /\ duplicate_tracks = << >> /\ tracks_to_delete = << >> /\ tracks_to_add = << >>
    /\ i = 0 /\ correct_index = 0 /\ tracks_reordered = 0
    /\ trace = << >>

NextHandler ==
    \/ get_playlist_ids
    \/ current_user
    \/ user_playlist_create
    \/ save_playlists
    \/ check_playlists
    \/ lambda_handler_for
    \/ lambda_handler_sync_returned
    \/ lambda_handler_sync_raised
    \/ lambda_handler_invoked
    \/ NextFaulty

SpecHandler == InitHandler /\ [][NextHandler]_vars

\* ------------------------------------------------------- the token cache
\* AwsParameterStoreCacheHandler and AwsSecretManagerCacheHandler; lambda_handler
\* picks the class by secrets_backend.  A stored payload is a string over three
\* characters; the payloads json.loads accepts are "{", members, "}", and the
\* token it returns is known by its number of members.
Chars == {"{", "x", "}"}
Payloads == SeqsUpTo(Chars, MaxPayloadLen)
IsJson(text) ==
    /\ Len(text) >= 2
    /\ text[1] = "{" /\ text[Len(text)] = "}"
    /\ \A k \in 2..(Len(text) - 1) : text[k] = "x"
JsonLoads(text) == [members |-> Len(text) - 2]
JsonDumps(token_info) ==
    [k \in 1..(token_info.members + 2) |->
        IF k = 1 THEN "{" ELSE IF k = token_info.members + 2 THEN "}" ELSE "x"]

NotCalled == [ended |-> "not called", value |-> "none"]
Returned(value) == [ended |-> "returned", value |-> value]
Raised(error) == [ended |-> "raised", value |-> error]

\* get_cached_token of both classes (lines 30-58 and 36-69): every except
\* clause logs and raises again, and an empty value raises Exception.
get_cached_token ==
    /\ cached_token.ended = "not called"
    /\ cached_token' =
           CASE token_store.response = "not found" -> Raised(NotFoundCode)
             [] token_store.response # "ok" -> Raised(token_store.response)
             [] token_store.value = << >> -> Raised("Exception: is empty")
             [] ~IsJson(token_store.value) -> Raised("JSONDecodeError")
             [] OTHER -> Returned(JsonLoads(token_store.value))
    /\ UNCHANGED <<feed, playlist_index, playlist_length, handler, token_store,
                   remote, err, sync_state, runs>>

\* save_token_to_cache (lines 60-78 and 71-103): the parameter is overwritten
\* or created; the secret is updated, or created when it is not there.
save_token_to_cache ==
    /\ cached_token.ended # "not called"
    /\ token_store.response \in {"ok", "not found"}
    /\ \E members \in 0..(MaxPayloadLen - 2) :
           token_store' = [response |-> "ok",
                           value |-> JsonDumps([members |-> members])]
    /\ cached_token' = NotCalled
    /\ UNCHANGED <<feed, playlist_index, playlist_length, handler,
                   remote, err, sync_state, runs>>

InitCache ==
    /\ secrets_backend \in Backends
    /\ \/ token_store \in [response : {"ok"}, value : Payloads]
       \/ token_store \in [response : {"not found", "AccessDeniedException"},
                            value : {<< >>}]
    /\ cached_token = NotCalled
    /\ playlist_names = << >> /\ store = NoStore /\ playlists = << >>
    /\ hpc = "none" /\ remote_playlists = << >> /\ handler_trace = << >>
    /\ feed = << >> /\ remote = << >>
    /\ playlist_index = 0 /\ playlist_length = DEFAULT_PLAYLIST_LENGTH
    /\ run = 1 /\ prev = "none" /\ ext_edits = 0
    /\ pc = "idle" /\ phase = "initial" /\ err = "none"
    /\ all_tracks = << >> /\ offset = 0 /\ fetched = 0
    /\ recently_added_tracks = << >> /\ playlist_tracks = << >>
    /\ duplicate_tracks = << >> /\ tracks_to_delete = << >> /\ tracks_to_add = << >>
    /\ i = 0 /\ correct_index = 0 /\ tracks_reordered = 0
    /\ trace = << >>

NextCache == get_cached_token \/ save_token_to_cache

SpecCache == InitCache /\ [][NextCache]_vars

\* ---------------------------------------------------------- the window fetcher
\* get_recently_added_tracks alone, over a static library whose track at
\* position k (1-based) has id k.
WindowSizes == (1..MaxWindow) \cup {2 * GET_LIMIT, DEFAULT_PLAYLIST_LENGTH}

InitWindow ==
    /\ feed \in {Iota(n) : n \in 0..MaxFeedLen}
    /\ remote = << >>
    /\ playlist_index \in 0..MaxIndex
    /\ playlist_length \in WindowSizes
    /\ FirstRun
    /\ StartOfRun

NextWindow == get_recently_added_tracks /\ phase = "initial"

SpecWindow == InitWindow /\ [][NextWindow]_vars

\* ===================================================================== claims
\* The window of the feed a segment stands for: positions
\* [index * size, index * size + size), cut at the end of the library.
Window(index, size) == Slice(feed, index * size, index * size + size)
Target == Window(playlist_index, playlist_length)

\* The run has read the playlist for the first time.
PastFirstFetch ==
    /\ pc # "get_recently_added_tracks"
    /\ ~(pc = "get_playlist_tracks" /\ phase = "initial")

\* C1: with a duplicate-free target, a faithful service and no external actor,
\* sync() never ends in an error (neither PlaylistSyncError nor a failed index
\* lookup), it does end, and when it has ended the remote playlist is the target.
SyncConverges ==
    /\ [](pc # "error" /\ err = "none")
    /\ [](pc = "done" => remote = Target /\ recently_added_tracks = Target)
    /\ <>(pc = "done")

\* A run that removed duplicates, removed foreign tracks and added tracks has ended.
SyncConvergesWitness ==
    /\ pc = "done"
    /\ duplicate_tracks # << >> /\ tracks_to_delete # << >> /\ tracks_to_add # << >>
    /\ remote = Target

\* C2: whenever sync() returns normally, also when an external actor edited the
\* playlist during the run, the playlist as the run last fetched it equals the
\* target element for element and holds no id twice.
ReturnMeansLastFetchIsTarget ==
    pc = "done" =>
        /\ playlist_tracks = recently_added_tracks
        /\ recently_added_tracks = Target
        /\ IsDuplicateFree(playlist_tracks)

\* A run that changed the playlist returned although the playlist was edited
\* from outside meanwhile.
ReturnMeansLastFetchIsTargetWitness ==
    /\ pc = "done"
    /\ ext_edits > 0
    /\ Mutations(trace) # << >>
    /\ playlist_tracks # << >>

\* C3: if the playlist as first fetched equals the fetched target (both empty
\* included), sync() returns successfully at once and has issued no add, no
\* remove and no reorder call.
NoOpShortCircuit ==
    (/\ PastFirstFetch
     /\ pc \notin {"sync_compare", "aborted"}
     /\ FirstFetch(trace) = recently_added_tracks)
    => (pc = "done" /\ err = "none" /\ Mutations(trace) = << >>)

\* A first run on a non-empty playlist that is already the target has returned.
NoOpShortCircuitWitness ==
    /\ run = 1
    /\ pc = "done"
    /\ recently_added_tracks # << >>
    /\ FirstFetch(trace) = recently_added_tracks
    /\ Mutations(trace) = << >>

\* C4: a run that directly follows a successful run, with the same target and
\* nobody else writing, issues no mutation call and leaves the playlist as it was.
SecondRunIsNoOp ==
    [][prev = "done" => (Mutations(trace') = << >> /\ remote' = remote)]_vars

\* The second run has ended after a first run that ended successfully.
SecondRunIsNoOpWitness ==
    /\ run = 2 /\ prev = "done" /\ pc = "done"
    /\ remote # << >>
    /\ Mutations(trace) = << >>

\* The ids a list holds more than once.
DuplicatedIds(tracks) ==
    {tracks[k] : k \in {j \in 1..Len(tracks) : Count(tracks, tracks[j]) > 1}}

\* C5: every id the first-fetched playlist holds more than once is gone from the
\* remote playlist, every copy of it, once the duplicate removal has run and
\* until the addition; if the target holds the id, the addition puts it back
\* exactly once, inside the block inserted at the head; the run ends without an
\* error and with the playlist equal to the target, each id once.  For playlist
\* [1,1,2] and target [1,2] the mutations are: remove [1], add [1], no move.
DuplicatesStrippedThenReadded ==
    PastFirstFetch =>
        LET dups == DuplicatedIds(FirstFetch(trace))
            stripped ==
                \/ pc \in {"sync_to_delete", "sync_to_add"}
                \/ pc = "get_playlist_tracks" /\ phase \in {"duplicates", "to_delete"}
                \/ pc = "delete_tracks" /\ phase = "to_delete"
            readded ==
                \/ pc = "sync_reorder"
                \/ pc = "get_playlist_tracks" /\ phase = "to_add"
        IN  /\ pc # "error"
            /\ (dups # {} /\ stripped) => \A d \in dups : ~Contains(remote, d)
            /\ (dups # {} /\ readded) =>
                   \A d \in dups :
                       Contains(recently_added_tracks, d) =>
                           /\ Count(tracks_to_add, d) = 1
                           /\ Count(remote, d) = 1
                           /\ Index(remote, d) < Len(tracks_to_add)
            /\ pc = "done" => remote = Target /\ IsDuplicateFree(remote)
            /\ (/\ pc = "done"
                /\ FirstFetch(trace) = <<1, 1, 2>>
                /\ recently_added_tracks = <<1, 2>>)
               => Mutations(trace) = <<RemoveCall(<<1>>), AddCall(<<1>>)>>

\* The run on playlist [1,1,2] with target [1,2] has ended.
DuplicatesStrippedThenReaddedWitness ==
    /\ pc = "done"
    /\ FirstFetch(trace) = <<1, 1, 2>>
    /\ recently_added_tracks = <<1, 2>>
    /\ remote = <<1, 2>>

\* The first-fetched playlist is a duplicate-free permutation of the target.
IsPermutationRun ==
    /\ PastFirstFetch
    /\ IsDuplicateFree(FirstFetch(trace))
    /\ Len(FirstFetch(trace)) = Len(recently_added_tracks)
    /\ \A k \in 1..Len(recently_added_tracks) :
           Contains(FirstFetch(trace), recently_added_tracks[k])

\* C6: when the playlist is a duplicate-free permutation of the target, the run
\* issues no add and no remove; its moves go to increasing target positions; the
\* pass over position i issues a move exactly when the mirror does not hold
\* target[i] at i, with range_start the mirror's index of target[i] and
\* insert_before i; the run ends without an error at the target.  For playlist
\* [1,3,2] and target [3,1,2] the only mutation is the move (1, 0).
PermutationOnlyMoves ==
    [][IsPermutationRun =>
        /\ pc' # "error"
        /\ Mutations(trace') = Moves(trace')
        /\ \A j, k \in 1..Len(Moves(trace')) :
               j < k => Moves(trace')[j].insert_before < Moves(trace')[k].insert_before
        /\ (pc = "reorder_playlist" /\ correct_index < Len(recently_added_tracks)) =>
               LET track == recently_added_tracks[correct_index + 1] IN
               IF playlist_tracks[correct_index + 1] # track
               THEN trace' = Append(trace, ReorderCall(Index(playlist_tracks, track),
                                                       correct_index))
               ELSE trace' = trace
        /\ pc' = "done" => remote' = Target
        /\ (/\ pc' = "done"
            /\ FirstFetch(trace') = <<1, 3, 2>>
            /\ recently_added_tracks = <<3, 1, 2>>)
           => Mutations(trace') = <<ReorderCall(1, 0)>>
    ]_vars

\* The run on playlist [1,3,2] with target [3,1,2] has ended.
PermutationOnlyMovesWitness ==
    /\ pc = "done"
    /\ FirstFetch(trace) = <<1, 3, 2>>
    /\ recently_added_tracks = <<3, 1, 2>>
    /\ remote = <<3, 1, 2>>
    /\ tracks_reordered = 1

\* C7: when the playlist is a permutation of the target of length N, the run
\* issues at most N reorder calls, and no two of them for the same target position.
BoundedReorderCost ==
    IsPermutationRun =>
        /\ Len(Moves(trace)) <= Len(recently_added_tracks)
        /\ \A j, k \in 1..Len(Moves(trace)) :
               Moves(trace)[j].insert_before = Moves(trace)[k].insert_before => j = k

\* A run on a permutation of a target of three tracks has issued two moves.
BoundedReorderCostWitness ==
    /\ IsPermutationRun
    /\ pc = "done"
    /\ Len(recently_added_tracks) = 3
    /\ Len(Moves(trace)) = 2

\* C8: for every segment index, every window size and every static library,
\* get_recently_added_tracks returns exactly the feed's ids at the positions
\* [index * size, min(index * size + size, L)), in feed order, so never more
\* than size of them.
WindowIsExact ==
    pc = "get_playlist_tracks" =>
        recently_added_tracks = Window(playlist_index, playlist_length)

\* C9: if an external actor edits the playlist during the run so that it is not
\* the target when the run ends, the run ends by raising PlaylistSyncError: not
\* by returning, and not with another error.  (A remote call the service itself
\* refuses is left aside here: that error is the service's.)
ExternalEditsEndInSyncError ==
    (/\ pc \in {"done", "error"}
     /\ ext_edits > 0
     /\ remote # Target
     /\ err # "SpotifyException")
    => (pc = "error" /\ err = "PlaylistSyncError")

\* C10: with a duplicate-free target and nobody else writing, the run that
\* follows a run aborted at any point never ends in an error, and it does end,
\* with the playlist equal to the target.
RerunAfterAbortConverges ==
    /\ []((IsDuplicateFree(feed) /\ prev = "aborted") => (pc # "error" /\ err = "none"))
    /\ (IsDuplicateFree(feed) /\ pc = "aborted")
           ~> (pc = "done" /\ prev = "aborted" /\ remote = Target)

\* The first run was aborted after it had changed the playlist, and the second
\* run has ended after changing it further.
RerunAfterAbortConvergesWitness ==
    /\ IsDuplicateFree(feed)
    /\ run = 2 /\ prev = "aborted" /\ pc = "done"
    /\ remote = Target
    /\ Mutations(trace) # << >>
    /\ remote # << >>

\* C16: when the library holds no more than index * size tracks,
\* get_recently_added_tracks issues a single page read, raises no error, and
\* returns the empty list.
WindowBoundaryIsEmpty ==
    Len(feed) <= playlist_index * playlist_length =>
        /\ Len(trace) <= 1
        /\ pc # "error" /\ err = "none"
        /\ pc = "get_playlist_tracks" =>
               /\ recently_added_tracks = << >>
               /\ trace = <<SavedTracksCall(playlist_index * playlist_length, << >>)>>

\* A later segment of a non-empty library that ends before the segment's window
\* has been fetched.
WindowBoundaryIsEmptyWitness ==
    /\ pc = "get_playlist_tracks"
    /\ playlist_index > 0
    /\ feed # << >>
    /\ Len(feed) <= playlist_index * playlist_length
    /\ recently_added_tracks = << >>
    /\ Len(trace) = 1

\* The ids of the remove calls of a trace, in the order they were submitted.
RECURSIVE Joined(_, _)
Joined(calls, k) ==
    IF k > Len(calls) THEN << >> ELSE calls[k].ids \o Joined(calls, k + 1)
Submitted(tr) == Joined(Calls(tr, {"playlist_remove_all_occurrences_of_items"}), 1)

\* The duplicate removal has submitted all its batches and nothing else has
\* been removed yet.
DuplicatesSubmitted == pc = "get_playlist_tracks" /\ phase = "duplicates"

\* C19 as stated: the ids the duplicate removal submits are the ids the fetched
\* playlist holds more than once, each of them exactly once, also an id the
\* playlist holds three times or more.
EachDuplicateSubmittedOnce ==
    DuplicatesSubmitted =>
        LET first == FirstFetch(trace)
            sub == Submitted(trace)
        IN  /\ {sub[k] : k \in 1..Len(sub)} = DuplicatedIds(first)
            /\ \A d \in DuplicatedIds(first) : Count(sub, d) = 1

\* C19 amended: the ids the duplicate removal submits are, as a set, the ids the
\* fetched playlist holds more than once; an id the playlist holds n times is
\* submitted n - 1 times (once for every occurrence after the first) and is
\* gone from the playlist afterwards; a playlist without duplicates submits
\* nothing, and no duplicated id is left out.
EachLaterOccurrenceSubmitted ==
    /\ DuplicatesSubmitted =>
        LET first == FirstFetch(trace)
            sub == Submitted(trace)
        IN  /\ {sub[k] : k \in 1..Len(sub)} = DuplicatedIds(first)
            /\ \A d \in DuplicatedIds(first) : Count(sub, d) = Count(first, d) - 1
            /\ \A d \in DuplicatedIds(first) : ~Contains(remote, d)
    /\ (PastFirstFetch /\ DuplicatedIds(FirstFetch(trace)) = {}) =>
           phase # "duplicates"
    /\ pc = "sync_to_delete" =>
           LET sub == Submitted(trace)
           IN  {sub[k] : k \in 1..Len(sub)} = DuplicatedIds(FirstFetch(trace))

\* The duplicate removal on a playlist that holds one id three times has
\* submitted the id twice.
EachLaterOccurrenceSubmittedWitness ==
    /\ DuplicatesSubmitted
    /\ FirstFetch(trace) = <<1, 1, 1>>
    /\ Submitted(trace) = <<1, 1>>

\* The add calls of a trace, and their ids with the call issued last in front.
Adds(tr) == Calls(tr, {"playlist_add_items"})
AddedSoFar(tr) == Joined(Reverse(Adds(tr)), 1)

\* C20: with nobody else writing, when add_tracks has submitted all its batches
\* the remote playlist is the list of ids to add, in the order they have in the
\* target, followed by the playlist as it was before the phase; the batches are
\* submitted last batch first (every batch but the one submitted first is a full
\* batch of 50, and the batches put together last-submitted first are the list),
\* each at the head of the playlist, for lists of one batch and of several.
AdditionsLandAtHeadInOrder ==
    /\ (pc = "add_tracks" \/ (pc = "get_playlist_tracks" /\ phase = "to_add")) =>
           /\ remote = AddedSoFar(trace) \o playlist_tracks
           /\ \A k \in 1..Len(Adds(trace)) :
                  /\ Len(Adds(trace)[k].ids) \in 1..GET_LIMIT
                  /\ k > 1 => Len(Adds(trace)[k].ids) = GET_LIMIT
           /\ \A j, k \in 1..Len(tracks_to_add) :
                  j < k => Index(recently_added_tracks, tracks_to_add[j])
                               < Index(recently_added_tracks, tracks_to_add[k])
    /\ (pc = "get_playlist_tracks" /\ phase = "to_add") =>
           /\ AddedSoFar(trace) = tracks_to_add
           /\ remote = tracks_to_add \o playlist_tracks

\* An addition of two batches in front of a playlist that was not empty has
\* submitted its last batch.
AdditionsLandAtHeadInOrderWitness ==
    /\ pc = "get_playlist_tracks" /\ phase = "to_add"
    /\ Len(Adds(trace)) = 2
    /\ Len(tracks_to_add) > GET_LIMIT
    /\ playlist_tracks # << >>
    /\ remote = tracks_to_add \o playlist_tracks

\* The playlist as the last complete read of it returned it: the pages at the
\* end of the trace, back to the page that follows a short page or another call.
IsFullPlaylistPage(c) == c.op = "playlist_items" /\ Len(c.ids) = GET_LIMIT
LastFetch(tr) ==
    LET n == Len(tr)
        start == CHOOSE k \in 1..n :
                     /\ \A j \in k..n : tr[j].op = "playlist_items"
                     /\ \A j \in k..(n - 1) : IsFullPlaylistPage(tr[j])
                     /\ k = 1 \/ ~IsFullPlaylistPage(tr[k - 1])
    IN  Fetched(SubSeq(tr, start, n), 1)

\* The positions of a trace where a stretch of calls of the operation begins.
Stretches(tr, op) ==
    {k \in 1..Len(tr) : tr[k].op = op /\ (k = 1 \/ tr[k - 1].op # op)}

\* sync() stands between a read of the playlist and whatever it does next.
BetweenPhases ==
    pc \in {"sync_compare", "sync_duplicates", "sync_to_delete", "sync_to_add",
            "sync_reorder", "sync_verify", "done"}

\* C18: the calls of one sync(), whoever else edits the playlist meanwhile, come
\* in the order: reads of the library, a read of the playlist, at most two
\* stretches of removals, at most one stretch of additions, at most one stretch
\* of moves; no removal follows an addition, no addition or removal follows a
\* move; the call that follows the last call of a stretch of mutations is a read
\* of the playlist; and whenever sync() decides what to do next, the list it
\* decides on is the one the last read of the playlist returned.
PhasesInOrder ==
    LET n == Len(trace) IN
    /\ n > 0 => trace[1].op = "current_user_saved_tracks"
    /\ \A k \in 2..n :
           /\ trace[k].op = "current_user_saved_tracks"
                  => trace[k - 1].op = "current_user_saved_tracks"
           /\ (trace[k - 1].op = "current_user_saved_tracks" /\ trace[k].op # trace[k - 1].op)
                  => trace[k].op = "playlist_items"
           /\ (trace[k - 1].op \in MutationOps /\ trace[k].op # trace[k - 1].op)
                  => trace[k].op = "playlist_items"
    /\ \A j, k \in 1..n :
           j < k =>
               /\ trace[j].op = "playlist_add_items"
                      => trace[k].op # "playlist_remove_all_occurrences_of_items"
               /\ trace[j].op = "playlist_reorder_items"
                      => trace[k].op \notin {"playlist_remove_all_occurrences_of_items",
                                            "playlist_add_items"}
    /\ Cardinality(Stretches(trace, "playlist_remove_all_occurrences_of_items")) <= 2
    /\ Cardinality(Stretches(trace, "playlist_add_items")) <= 1
    /\ Cardinality(Stretches(trace, "playlist_reorder_items")) <= 1
    /\ BetweenPhases =>
           /\ trace[n].op = "playlist_items"
           /\ playlist_tracks = LastFetch(trace)
    /\ pc \in {"delete_tracks", "add_tracks"} =>
           (i = (IF pc = "delete_tracks" THEN 0
                 ELSE LastBatchStart(Len(tracks_to_add)))
               => playlist_tracks = LastFetch(trace))

\* A run that removed, added and moved has ended although the playlist was
\* edited from outside, so that a read returned what no phase could infer.
PhasesInOrderWitness ==
    /\ pc = "done"
    /\ ext_edits > 0
    /\ Cardinality(Stretches(trace, "playlist_remove_all_occurrences_of_items")) = 1
    /\ Cardinality(Stretches(trace, "playlist_add_items")) = 1
    /\ Cardinality(Stretches(trace, "playlist_reorder_items")) = 1

\* C15: a paginated read that returns no result container, of the library or
\* of the playlist, in the first fetch or in a re-fetch, on the first page or on
\* a later one, is the last remote call of the run: the run has ended with
\* TrackFetchError, the read was not issued again and nothing was called after it.
NoResultEndsRun ==
    \A k \in 1..Len(trace) :
        trace[k].result = "None" =>
            /\ k = Len(trace)
            /\ trace[k].op \in {"current_user_saved_tracks", "playlist_items"}
            /\ pc = "error" /\ err = "TrackFetchError"

\* The second page of the re-fetch after an addition came back without a result.
NoResultEndsRunWitness ==
    /\ pc = "error" /\ err = "TrackFetchError"
    /\ phase = "to_add"
    /\ Mutations(trace) # << >>
    /\ trace[Len(trace)] = FailedCall("playlist_items", GET_LIMIT, "None")

\* What the current invocation of lambda_handler has called so far.
RunEvents == SelectSeq(handler_trace, LAMBDA e : e.run = run)
EventsOf(tr, ops) == SelectSeq(tr, LAMBDA e : e.op \in ops)

\* The invocation read a stored list whose names are not the configured names.
StoredNamesDiffer ==
    /\ RunEvents # << >>
    /\ RunEvents[1].result = "ok"
    /\ NamesOf(ParsePlaylists(store.value)) # playlist_names

\* C11: when the store holds a list whose names are not the configured names,
\* in the same order, the invocation ends in an error raised by get_playlist_ids:
\* after the read of the store it calls nothing (no create-playlist, no write of
\* the store, no sync() and so no read or change of any playlist), and its next
\* step is the raise.
MismatchFailsLoudly ==
    /\ [](StoredNamesDiffer =>
            /\ hpc \in {"check_playlists", "raised"}
            /\ Len(RunEvents) = 1
            /\ pc = "idle" /\ trace = << >>
            /\ hpc = "raised" =>
                   err \in {"Exception: Playlist data does not match expected",
                            "PlaylistsDataError: Playlist data retrieval error"})
    /\ [][(StoredNamesDiffer /\ hpc = "check_playlists") =>
              /\ hpc' = "raised"
              /\ store' = store /\ remote_playlists' = remote_playlists
              /\ handler_trace' = handler_trace]_vars

\* The configured names are stored in another order, and the invocation has
\* ended in the error.
MismatchFailsLoudlyWitness ==
    /\ hpc = "raised"
    /\ playlist_names = <<"Recently Added", "Older Recently Added">>
    /\ NamesOf(ParsePlaylists(store.value)) = <<"Older Recently Added", "Recently Added">>
    /\ StoredNamesDiffer
    /\ err = "Exception: Playlist data does not match expected"

\* The first invocation found no stored list and its get_playlist_ids returned.
FirstRunCreated ==
    /\ playlist_names # << >>
    /\ handler_trace # << >>
    /\ handler_trace[1].result \in NotFoundCodes
    /\ \E k \in 1..Len(handler_trace) :
           handler_trace[k].run = 1 /\ handler_trace[k].op = "get_playlist_ids"

\* C12: from a store without a list and with a non-empty configured name list,
\* once the first invocation's get_playlist_ids has returned: over all
\* invocations create-playlist was called once per configured name, in the
\* configured order, all in the first invocation; the store was written once,
\* in the first invocation, with the list that invocation returned (name and
\* created id, in order), and reads back as that list; no later invocation asks
\* for the user, creates or writes, and each one whose read of the store
\* succeeds returns that same list.
CreatedOnceThenReused ==
    FirstRunCreated =>
        LET creates == EventsOf(handler_trace, {"user_playlist_create"})
            writes == EventsOf(handler_trace, {"put_parameter", "create_secret"})
            returns == EventsOf(handler_trace, {"get_playlist_ids"})
            first == returns[1].arg
        IN  /\ [k \in 1..Len(creates) |-> creates[k].arg[1]] = playlist_names
            /\ \A k \in 1..Len(creates) : creates[k].run = 1 /\ creates[k].result = "ok"
            /\ first = [k \in 1..Len(creates) |-> creates[k].arg]
            /\ Len(writes) = 1
            /\ writes[1].run = 1 /\ writes[1].result = "ok"
            /\ writes[1].arg = Dumps(first)
            /\ store.exists /\ ParsePlaylists(store.value) = first
            /\ \A k \in 1..Len(handler_trace) :
                   handler_trace[k].run > 1 =>
                       handler_trace[k].op \notin {"current_user", "user_playlist_create",
                                                   "put_parameter", "create_secret"}
            /\ \A k \in 1..Len(returns) : returns[k].arg = first
            /\ (/\ run > 1
                /\ RunEvents # << >>
                /\ RunEvents[1].result = "ok"
                /\ hpc # "check_playlists")
               => EventsOf(RunEvents, {"get_playlist_ids"}) # << >>

\* The second invocation has returned after a first one that created two
\* playlists.
CreatedOnceThenReusedWitness ==
    /\ FirstRunCreated
    /\ run = 2 /\ hpc = "returned"
    /\ Len(playlist_names) = 2
    /\ Len(EventsOf(handler_trace, {"user_playlist_create"})) = 2
    /\ Len(EventsOf(handler_trace, {"get_playlist_ids"})) = 2

\* C13: lambda_handler calls sync() for the resolved segments one at a time, in
\* the order of the list, the k-th with index k - 1 and the k-th name and id; it
\* returns only after every segment's sync() has returned; when a sync() raises,
\* lambda_handler has raised that error, has not returned, and nothing is called
\* or changed for that segment or a later one afterwards.
SegmentsInOrder ==
    /\ [](LET calls == EventsOf(RunEvents, {"sync"})
              ends == EventsOf(RunEvents, {"sync returned", "sync raised"})
          IN  /\ Len(calls) <= Len(playlists)
              /\ \A k \in 1..Len(calls) :
                     calls[k].arg = <<k - 1, playlists[k][1], playlists[k][2]>>
              /\ \A k \in 1..Len(ends) :
                     /\ ends[k].arg = <<k - 1>>
                     /\ ends[k].op = "sync raised" => k = Len(ends)
              /\ Len(calls) - Len(ends) \in {0, 1}
              /\ hpc = "sync" <=> Len(calls) = Len(ends) + 1
              /\ hpc = "sync" => playlist_index = Len(ends)
              /\ pc \notin {"idle", "error"} => hpc = "sync"
              /\ hpc = "returned" =>
                     /\ err = "none"
                     /\ playlists # << >>
                     /\ Len(ends) = Len(playlists)
                     /\ \A k \in 1..Len(ends) : ends[k].op = "sync returned"
                     /\ RunEvents[Len(RunEvents)].op = "lambda_handler"
              /\ (ends # << >> /\ ends[Len(ends)].op = "sync raised") =>
                     /\ hpc = "raised"
                     /\ err = ends[Len(ends)].result
                     /\ RunEvents[Len(RunEvents)] = ends[Len(ends)])
    /\ [][(hpc = "raised" /\ run' = run) =>
              UNCHANGED <<trace, remote, remote_playlists, handler_trace, hpc, err>>]_vars

\* The sync() of the second segment has raised after the first segment's
\* sync() had changed its playlist and returned.
SegmentsInOrderWitness ==
    /\ hpc = "raised"
    /\ EventsOf(RunEvents, {"sync returned"}) # << >>
    /\ RunEvents[Len(RunEvents)].op = "sync raised"
    /\ RunEvents[Len(RunEvents)].arg = <<1>>
    /\ remote_playlists[playlists[1][2]] # << >>

\* C14: a remote call that raises (a read of the store that fails with a code
\* other than not-found, a write of the store, a call of the playlist service in
\* get_playlist_ids or in any phase of a sync()) ends the invocation with that
\* same error: when the invocation has ended, it has raised, and the error is
\* the one the call raised.
FailuresReachCaller ==
    /\ \A k \in 1..Len(RunEvents) :
           (/\ RunEvents[k].op \notin {"sync raised"}
            /\ RunEvents[k].result \in {"AccessDeniedException", "SpotifyException"}
            /\ hpc \in {"returned", "raised"})
           => (hpc = "raised" /\ err = RunEvents[k].result)
    /\ \A k \in 1..Len(trace) :
           trace[k].result = "SpotifyException" =>
               /\ pc = "error" /\ err = "SpotifyException"
               /\ hpc \in {"sync", "raised"}

\* C17: for both cache handlers, when the token parameter / secret does not
\* exist, or holds what cannot be parsed, get_cached_token returns None and
\* does not end in an error.
MissingTokenIsNone ==
    (/\ cached_token.ended # "not called"
     /\ \/ token_store.response = "not found"
        \/ token_store.response = "ok" /\ ~IsJson(token_store.value))
    => (cached_token.ended = "returned" /\ cached_token.value = "None")

\* The remove calls of a trace.
Removes(tr) == Calls(tr, {"playlist_remove_all_occurrences_of_items"})

\* C21: every add call and every remove call carries between 1 and 50 ids; the
\* batches a phase has submitted so far, put together in index order, are the
\* part of the phase's list the loop has walked (for delete_tracks the ids
\* before index i, for add_tracks the ids from index i + 50 on), and once the
\* phase has submitted its last batch they are the phase's whole list: the
\* duplicates, then the ids to delete, and the ids to add.
BatchesCoverPhaseList ==
    /\ \A k \in 1..Len(trace) :
           trace[k].op \in {"playlist_remove_all_occurrences_of_items",
                            "playlist_add_items"}
               => Len(trace[k].ids) \in 1..GET_LIMIT
    /\ (pc = "delete_tracks" /\ phase = "duplicates") =>
           Submitted(trace) = Slice(duplicate_tracks, 0, i)
    /\ (pc = "delete_tracks" /\ phase = "to_delete") =>
           Submitted(trace) = duplicate_tracks \o Slice(tracks_to_delete, 0, i)
    /\ pc # "delete_tracks" => Submitted(trace) = duplicate_tracks \o tracks_to_delete
    /\ pc = "add_tracks" =>
           AddedSoFar(trace) = Slice(tracks_to_add, i + GET_LIMIT, Len(tracks_to_add))
    /\ pc # "add_tracks" => AddedSoFar(trace) = tracks_to_add

\* The removal of more ids than one batch holds has submitted its second and
\* last batch, the one id left over.
BatchesCoverPhaseListWitness ==
    /\ pc = "get_playlist_tracks" /\ phase = "to_delete"
    /\ Len(tracks_to_delete) = GET_LIMIT + 1
    /\ Len(Removes(trace)) = 2
    /\ Len(Removes(trace)[1].ids) = GET_LIMIT
    /\ Len(Removes(trace)[2].ids) = 1

\* reorder_playlist's local list is a duplicate-free permutation of the target.
MirrorIsPermutation ==
    /\ IsDuplicateFree(playlist_tracks)
    /\ IsDuplicateFree(recently_added_tracks)
    /\ Len(playlist_tracks) = Len(recently_added_tracks)
    /\ \A k \in 1..Len(recently_added_tracks) :
           Contains(playlist_tracks, recently_added_tracks[k])

\* C22: while reorder_playlist works on a local list that is a duplicate-free
\* permutation of the target, every step of its loop leaves the list a
\* permutation, leaves the positions before correct_index as they were, and
\* leaves the list equal to the target on all positions the loop has passed; the
\* loop never steps back, and when it ends the list is the target.
ReorderPrefixIsFinal ==
    [][(pc = "reorder_playlist" /\ MirrorIsPermutation) =>
        /\ MirrorIsPermutation'
        /\ \A k \in 1..correct_index :
               /\ playlist_tracks[k] = recently_added_tracks[k]
               /\ playlist_tracks'[k] = playlist_tracks[k]
        /\ \A k \in 1..correct_index' : playlist_tracks'[k] = recently_added_tracks[k]
        /\ pc' = "reorder_playlist" =>
               correct_index' \in {correct_index, correct_index + 1}
        /\ pc' = "get_playlist_tracks" =>
               /\ correct_index = Len(recently_added_tracks)
               /\ playlist_tracks' = recently_added_tracks
    ]_vars

\* The loop has moved two tracks to the first two positions of a list whose
\* other positions are not the target's yet.
ReorderPrefixIsFinalWitness ==
    /\ pc = "reorder_playlist"
    /\ MirrorIsPermutation
    /\ correct_index = 2
    /\ tracks_reordered = 2
    /\ SubSeq(playlist_tracks, 1, 2) = SubSeq(recently_added_tracks, 1, 2)
    /\ playlist_tracks # recently_added_tracks

\* reorder_playlist's local list after the moves of a trace: the playlist as it
\* was read before the first move, with every move applied as lines 187-188 do.
RECURSIVE Moved(_, _, _)
Moved(tracks, moves, k) ==
    IF k > Len(moves) THEN tracks
    ELSE Moved(MoveTrack(tracks, moves[k].range_start, moves[k].insert_before),
               moves, k + 1)
Mirror(tr) ==
    LET first == CHOOSE k \in 1..Len(tr) :
                     /\ tr[k].op = "playlist_reorder_items"
                     /\ \A j \in 1..(k - 1) : tr[j].op # "playlist_reorder_items"
    IN  Moved(LastFetch(SubSeq(tr, 1, first - 1)), Moves(tr), 1)

\* C23: when sync() makes its final comparison (the run was not cut short, so
\* it has issued a mutation), the last call of the run is a read of the playlist,
\* every mutation of the run comes before the pages of that read, the list
\* compared is what that read returned, whether or not reorder_playlist ran, and
\* the run succeeds exactly when that list is the target and fails with
\* PlaylistSyncError otherwise, whatever reorder_playlist's local list held.
VerifiesWhatWasFetchedLast ==
    [][pc = "sync_verify" =>
        LET n == Len(trace)
            last == CHOOSE k \in 1..n :
                        trace[k].op \in MutationOps
                            /\ \A j \in (k + 1)..n : trace[j].op \notin MutationOps
        IN  /\ Mutations(trace) # << >>
            /\ last < n
            /\ \A j \in (last + 1)..n : trace[j].op = "playlist_items"
            /\ trace[last + 1].offset = 0
            /\ playlist_tracks = LastFetch(trace)
            /\ phase \in {"duplicates", "to_delete", "to_add", "reorder"}
            /\ trace[last].op = "playlist_reorder_items" => phase = "reorder"
            /\ trace' = trace
            /\ pc' = "done" <=> playlist_tracks = recently_added_tracks
            /\ (pc' = "error" /\ err' = "PlaylistSyncError")
                   <=> playlist_tracks # recently_added_tracks
    ]_vars

\* reorder_playlist ended with a local list equal to the target, the playlist
\* was edited from outside meanwhile, and the run failed on what it read.
VerifiesWhatWasFetchedLastWitness ==
    /\ pc = "error" /\ err = "PlaylistSyncError"
    /\ phase = "reorder"
    /\ ext_edits > 0
    /\ Moves(trace) # << >>
    /\ Mirror(trace) = recently_added_tracks
    /\ LastFetch(trace) # recently_added_tracks
    /\ playlist_tracks = LastFetch(trace)

\* C24: with nobody else writing, reorder_playlist starts on the playlist as the
\* service holds it; while its local list is a duplicate-free permutation of the
\* target and equals the remote playlist, every call it issues is a reorder
\* call whose range_start is greater than its insert_before and lies inside the
\* playlist, the service's move of the one item and the local pop and insert
\* give the same list, and the local list equals the remote playlist after the
\* step.
MovesGoTowardsHead ==
    [][/\ (pc' = "reorder_playlist" /\ correct_index' = 0) => playlist_tracks' = remote'
       /\ (pc = "reorder_playlist" /\ MirrorIsPermutation /\ playlist_tracks = remote) =>
              /\ playlist_tracks' = remote'
              /\ trace' # trace =>
                     LET c == trace'[Len(trace')] IN
                     /\ trace' = Append(trace, c)
                     /\ c.op = "playlist_reorder_items"
                     /\ c.range_start > c.insert_before
                     /\ c.insert_before = correct_index
                     /\ ReorderInRange(remote, c.range_start, c.insert_before)
                     /\ remote' = ReorderItems(remote, c.range_start, c.insert_before)
                     /\ ReorderItems(remote, c.range_start, c.insert_before)
                            = MoveTrack(playlist_tracks, c.range_start, c.insert_before)
    ]_vars

\* reorder_playlist has moved a track over more than one position towards the
\* head, and its list and the remote playlist are the same list, not yet the
\* target.
MovesGoTowardsHeadWitness ==
    /\ pc = "reorder_playlist"
    /\ MirrorIsPermutation
    /\ Moves(trace) # << >>
    /\ Moves(trace)[1].range_start > Moves(trace)[1].insert_before + 1
    /\ playlist_tracks = remote
    /\ playlist_tracks # recently_added_tracks

\* The ids of the target that the playlist as first fetched holds exactly once.
KeptIds ==
    {t \in {recently_added_tracks[k] : k \in 1..Len(recently_added_tracks)} :
        Count(FirstFetch(trace), t) = 1}

====
